---------------------------- MODULE Spec2Model ----------------------------
(***************************************************************************)
(* Powerball CSV utilities: the updater (powerball_updater.py) and the     *)
(* sorter (sort_powerball.py).                                             *)
(*                                                                         *)
(* A text is a sequence of one-character strings, so that lower-casing,    *)
(* stripping, splitting and the code-point order Python compares strings   *)
(* by are computed, not assumed.  A missing value (pandas NaN / NaT,       *)
(* Python None, an empty CSV cell) is the empty sequence.                  *)
(***************************************************************************)
EXTENDS Integers, Sequences, FiniteSets, TLC

----------------------------------------------------------------------------
(* Bounds of the model.                                                    *)

\* rows of an existing CSV file
MaxRows == 2
\* draw dates that occur in files and API responses
MaxDay == 3
\* records in one API response
MaxNew == 1
\* file arguments of one sorter run
MaxFiles == 2
\* columns of a table handed to guess_date_col on its own
MaxCols == 2

----------------------------------------------------------------------------
(* Characters and texts.                                                   *)

UpperLetters == <<"A", "B", "C", "D", "E", "F", "G", "H", "I", "J", "K", "L", "M",
                  "N", "O", "P", "Q", "R", "S", "T", "U", "V", "W", "X", "Y", "Z">>
LowerLetters == <<"a", "b", "c", "d", "e", "f", "g", "h", "i", "j", "k", "l", "m",
                  "n", "o", "p", "q", "r", "s", "t", "u", "v", "w", "x", "y", "z">>
DigitChars == <<"0", "1", "2", "3", "4", "5", "6", "7", "8", "9">>

\* The characters the model's texts are written in, in code-point order:
\* ' ' 32, '-' 45, '.' 46, '/' 47, '0'-'9' 48-57, ':' 58, 'A'-'Z' 65-90,
\* '_' 95, 'a'-'z' 97-122.
Alphabet == <<" ", "-", ".", "/">> \o DigitChars \o <<":">> \o UpperLetters
            \o <<"_">> \o LowerLetters

Range(s) == {s[i] : i \in 1..Len(s)}

IndexOf(s, x) == CHOOSE i \in 1..Len(s) : s[i] = x

\* Rank of a character in code-point order.
Ord == [c \in Range(Alphabet) |-> IndexOf(Alphabet, c)]

\* Python's str < str, from character k on: lexicographic by code point, a
\* proper prefix first.
RECURSIVE StrLessFrom(_, _, _)
StrLessFrom(a, b, k) ==
    IF k > Len(b) THEN FALSE
    ELSE IF k > Len(a) THEN TRUE
    ELSE IF a[k] # b[k] THEN Ord[a[k]] < Ord[b[k]]
    ELSE StrLessFrom(a, b, k + 1)

StrLess(a, b) == StrLessFrom(a, b, 1)

\* str.lower() on one character.
LowerChar(c) ==
    IF c \in Range(UpperLetters) THEN LowerLetters[IndexOf(UpperLetters, c)] ELSE c

IsDigit(c) == c \in Range(DigitChars)

IsDigits(s) == s # <<>> /\ \A i \in 1..Len(s) : IsDigit(s[i])

DigitValue(c) == IndexOf(DigitChars, c) - 1

\* int(s[:n]) of a text of digits.
RECURSIVE ToNatUpTo(_, _)
ToNatUpTo(s, n) ==
    IF n = 0 THEN 0 ELSE 10 * ToNatUpTo(s, n - 1) + DigitValue(s[n])

ToNat(s) == ToNatUpTo(s, Len(s))

\* n written in at least `width` digits, zero padded (strftime's %Y, %m, %d).
RECURSIVE Digits(_, _)
Digits(n, width) ==
    IF n < 10 /\ width <= 1 THEN <<DigitChars[n + 1]>>
    ELSE Digits(n \div 10, width - 1) \o <<DigitChars[(n % 10) + 1]>>

\* str.split(sep): the pieces between the occurrences of the character sep.
Split(s, sep) ==
    LET at  == SelectSeq([i \in 1..Len(s) |-> i], LAMBDA i : s[i] = sep)
        cut == <<0>> \o at \o <<Len(s) + 1>>
    IN  [k \in 1..(Len(at) + 1) |-> SubSeq(s, cut[k] + 1, cut[k + 1] - 1)]

\* F(v), with v computed once: one statement's result handed to the next.
Then(v, F(_)) == CHOOSE r \in {F(x) : x \in {v}} : TRUE

Reverse(s) == Then(s, LAMBDA v : [i \in 1..Len(v) |-> v[Len(v) + 1 - i]])

----------------------------------------------------------------------------
(* Dates.  A calendar date is <<year, month, day>>; NaT is the empty tuple.*)

NaT == <<>>
None == <<>>
NaTText == <<"N", "a", "T">>

DaysInMonth(y, m) ==
    IF m \in {4, 6, 9, 11} THEN 30
    ELSE IF m # 2 THEN 31
    ELSE IF (y % 4 = 0 /\ y % 100 # 0) \/ y % 400 = 0 THEN 29 ELSE 28

ValidDate(y, m, d) == m \in 1..12 /\ d \in 1..DaysInMonth(y, m)

\* Order of two calendar dates.
DateLess(a, b) ==
    \/ a[1] < b[1]
    \/ a[1] = b[1] /\ a[2] < b[2]
    \/ a[1] = b[1] /\ a[2] = b[2] /\ a[3] < b[3]

\* The date of the texts of a year, a month and a day; NaT when one of them
\* is not a number or the day is not in the calendar.
date_of_fields(y, m, d) ==
    IF IsDigits(y) /\ IsDigits(m) /\ IsDigits(d)
    THEN Then(<<ToNat(y), ToNat(m), ToNat(d)>>,
              LAMBDA date : IF ValidDate(date[1], date[2], date[3]) THEN date ELSE NaT)
    ELSE NaT

\* YYYY-MM-DD, from its fields.
parse_iso(f) ==
    IF Len(f) = 3 /\ Len(f[1]) = 4 /\ Len(f[2]) = 2 /\ Len(f[3]) = 2
    THEN date_of_fields(f[1], f[2], f[3]) ELSE NaT

\* M/D/YYYY with one- or two-digit month and day, month first, from its fields.
parse_us(f) ==
    IF Len(f) = 3 /\ Len(f[1]) \in 1..2 /\ Len(f[2]) \in 1..2 /\ Len(f[3]) = 4
    THEN date_of_fields(f[3], f[1], f[2]) ELSE NaT

\* pd.to_datetime(value, errors="coerce") on one cell: YYYY-MM-DD, or
\* M/D/YYYY; anything else, the text "NaT" and a missing cell included, is
\* NaT.
to_datetime(text) ==
    Then(Then(Split(text, "-"), parse_iso),
         LAMBDA date : IF date # NaT THEN date
                       ELSE Then(Split(text, "/"), parse_us))

\* str(datetime.date) and strftime("%Y-%m-%d"): YYYY-MM-DD.
isoformat(d) == Digits(d[1], 4) \o <<"-">> \o Digits(d[2], 2) \o <<"-">> \o Digits(d[3], 2)

\* Series.astype(str) on one value of a date column: NaT becomes the text "NaT".
astype_str(d) == IF d = NaT THEN NaTText ELSE isoformat(d)

----------------------------------------------------------------------------
(* Tables.  A CSV file and a DataFrame are [columns, rows]: the header     *)
(* names in order and, per row, one cell text per column.                  *)

Column(df, c) == [i \in 1..Len(df.rows) |-> df.rows[i][IndexOf(df.columns, c)]]

\* DataFrame.rename(columns=mapping): mapping is a set of <<old, new>> pairs.
rename(df, mapping) ==
    [df EXCEPT !.columns =
        [k \in 1..Len(df.columns) |->
            IF \E m \in mapping : m[1] = df.columns[k]
            THEN (CHOOSE m \in mapping : m[1] = df.columns[k])[2]
            ELSE df.columns[k]]]

\* df[cols]: the named columns, in the order asked for.
project(df, cols) ==
    [columns |-> cols,
     rows    |-> [i \in 1..Len(df.rows) |->
                     [k \in 1..Len(cols) |-> df.rows[i][IndexOf(df.columns, cols[k])]]]]

\* df[name] = None: a new last column of missing values.
with_none_column(df, name) ==
    [columns |-> Append(df.columns, name),
     rows    |-> [i \in 1..Len(df.rows) |-> Append(df.rows[i], None)]]

\* numpy's stable argsort of texts: index i comes after the indices whose
\* key is smaller and after the earlier indices whose key is equal.
argsort(keys) ==
    LET before(i) == {j \in 1..Len(keys) :
                         \/ StrLess(keys[j], keys[i])
                         \/ keys[j] = keys[i] /\ j < i}
    IN  [r \in 1..Len(keys) |->
            CHOOSE i \in 1..Len(keys) : Cardinality(before(i)) = r - 1]

\* pandas.core.sorting.nargsort with na_position="last": the missing keys
\* are set aside and put last; a descending sort reverses the keys, sorts
\* them ascending and reverses the result, so that ties keep their order.
nargsort(items, ascending) ==
    LET idx         == [i \in 1..Len(items) |-> i]
        nan_idx     == SelectSeq(idx, LAMBDA i : items[i] = <<>>)
        directed(s) == IF ascending THEN s ELSE Reverse(s)
        indexer(non_nan_idx) ==
            Then(Then([k \in 1..Len(non_nan_idx) |-> items[non_nan_idx[k]]], argsort),
                 LAMBDA order : directed([k \in 1..Len(order) |-> non_nan_idx[order[k]]]))
    IN  Then(directed(SelectSeq(idx, LAMBDA i : items[i] # <<>>)), indexer) \o nan_idx

\* DataFrame.sort_values(col, ascending=...).
sort_values(df, col, ascending) ==
    LET take(indexer) ==
            [df EXCEPT !.rows = [k \in 1..Len(indexer) |-> df.rows[indexer[k]]]]
    IN  Then(Then(Column(df, col), LAMBDA items : nargsort(items, ascending)), take)

\* DataFrame.drop_duplicates(subset=[col], keep="last").
drop_duplicates(df, col) ==
    LET key  == Column(df, col)
        keep == SelectSeq([i \in 1..Len(df.rows) |-> i],
                          LAMBDA i : \A j \in (i + 1)..Len(df.rows) : key[j] # key[i])
    IN  [df EXCEPT !.rows = [k \in 1..Len(keep) |-> df.rows[keep[k]]]]

\* pd.concat([a, b], ignore_index=True) of two frames with the same columns.
concat(a, b) == [columns |-> a.columns, rows |-> a.rows \o b.rows]

----------------------------------------------------------------------------
(* sort_powerball.py                                                       *)

DATE_CANDIDATES ==
    { <<"d", "r", "a", "w", "d", "a", "t", "e">>,
      <<"d", "r", "a", "w", "_", "d", "a", "t", "e">>,
      <<"d", "a", "t", "e">>,
      <<"d", "r", "a", "w", "i", "n", "g", "d", "a", "t", "e">>,
      <<"d", "r", "a", "w", "_", "d", "t">>,
      <<"d", "r", "a", "w">> }

\* re.sub(r"[^a-z0-9]", "", s.lower())
norm(s) ==
    SelectSeq([i \in 1..Len(s) |-> LowerChar(s[i])],
              LAMBDA c : c \in Range(LowerLetters) \/ IsDigit(c))

\* hits of guess_date_col:
\* pd.to_datetime(df[c], errors="coerce", utc=True).notna().sum()
hits_of(df, c) ==
    Cardinality({i \in 1..Len(df.rows) : to_datetime(Column(df, c)[i]) # NaT})

\* Variant of better_hits: a later column with as many hits replaces the best.
better_hits_OrEqual(hits, best_hits) == hits >= best_hits /\ hits > 0

\* if hits > best_hits and hits > 0
better_hits(hits, best_hits) == hits > best_hits /\ hits > 0

\* The content-based loop of guess_date_col, from column k on.
RECURSIVE content_scan(_, _, _, _)
content_scan(df, k, best_col, best_hits) ==
    IF k > Len(df.columns) THEN best_col
    ELSE LET c    == df.columns[k]
             hits == hits_of(df, c)
         IN  IF better_hits(hits, best_hits)
             THEN content_scan(df, k + 1, c, hits)
             ELSE content_scan(df, k + 1, best_col, best_hits)

\* The name-based loop of guess_date_col, from column k on.
RECURSIVE name_scan(_, _)
name_scan(df, k) ==
    IF k > Len(df.columns) THEN content_scan(df, 1, None, -1)
    ELSE IF norm(df.columns[k]) \in DATE_CANDIDATES THEN df.columns[k]
    ELSE name_scan(df, k + 1)

guess_date_col(df) == name_scan(df, 1)

\* df[col] = pd.to_datetime(df[col], errors="coerce", utc=True).dt.date.astype(str)
normalize_dates(df, col) ==
    LET k == IndexOf(df.columns, col)
    IN  [df EXCEPT !.rows =
            [i \in 1..Len(df.rows) |->
                [df.rows[i] EXCEPT ![k] = Then(to_datetime(df.rows[i][k]), astype_str)]]]

\* The table sort_file writes: dates cleaned, newest first, stable.
sorted_table(df, col) ==
    Then(normalize_dates(df, col), LAMBDA cleaned : sort_values(cleaned, col, FALSE))

----------------------------------------------------------------------------
(* powerball_updater.py                                                    *)

DrawDateName == <<"D", "r", "a", "w", " ", "D", "a", "t", "e">>
WinningNumbersName ==
    <<"W", "i", "n", "n", "i", "n", "g", " ", "N", "u", "m", "b", "e", "r", "s">>
MultiplierName == <<"M", "u", "l", "t", "i", "p", "l", "i", "e", "r">>

out_cols == <<DrawDateName, WinningNumbersName, MultiplierName>>

date_options ==
    << DrawDateName,
       <<"d", "r", "a", "w", "_", "d", "a", "t", "e">>,
       <<"D", "r", "a", "w", " ", "d", "a", "t", "e">>,
       <<"d", "a", "t", "e">> >>

nums_options ==
    << WinningNumbersName,
       <<"w", "i", "n", "n", "i", "n", "g", "_", "n", "u", "m", "b", "e", "r", "s">>,
       <<"W", "i", "n", "n", "i", "n", "g", " ", "n", "u", "m", "b", "e", "r", "s">> >>

mult_options ==
    << MultiplierName,
       <<"m", "u", "l", "t", "i", "p", "l", "i", "e", "r">>,
       <<"P", "o", "w", "e", "r", " ", "P", "l", "a", "y">>,
       <<"p", "o", "w", "e", "r", "p", "l", "a", "y">>,
       <<"p", "o", "w", "e", "r", "_", "p", "l", "a", "y">> >>

\* pick(name_options): the first option that is a column of df, else None.
pick(name_options, columns) ==
    IF \E k \in 1..Len(name_options) : name_options[k] \in Range(columns)
    THEN name_options[CHOOSE k \in 1..Len(name_options) :
                          /\ name_options[k] \in Range(columns)
                          /\ \A j \in 1..(k - 1) : name_options[j] \notin Range(columns)]
    ELSE None

\* pd.read_csv(csv_path) infers each column's type: a column of whole
\* numbers is int64, one of whole numbers and empty cells is float64 (its
\* numbers are then written back as 2.0), anything else stays text.
inferred_column(cells) ==
    IF /\ \A i \in 1..Len(cells) : cells[i] = <<>> \/ IsDigits(cells[i])
       /\ \E i \in 1..Len(cells) : IsDigits(cells[i])
    THEN IF \E i \in 1..Len(cells) : cells[i] = <<>>
         THEN [i \in 1..Len(cells) |->
                  IF cells[i] = <<>> THEN <<>>
                  ELSE Digits(ToNat(cells[i]), 1) \o <<".", "0">>]
         ELSE [i \in 1..Len(cells) |-> Digits(ToNat(cells[i]), 1)]
    ELSE cells

read_csv(file) ==
    [columns |-> file.columns,
     rows    |-> [i \in 1..Len(file.rows) |->
                     [k \in 1..Len(file.columns) |->
                         inferred_column([j \in 1..Len(file.rows) |-> file.rows[j][k]])[i]]]]

\* df["_parsed_draw_date"].max(): the latest date, NaT when none parses.
max_date(dates) ==
    LET parsed == {dates[i] : i \in 1..Len(dates)} \ {NaT}
    IN  IF parsed = {} THEN NaT
        ELSE CHOOSE d \in parsed : \A e \in parsed : ~DateLess(d, e)

\* last_date_iso of main.
last_date_iso_of(df, col) ==
    LET last_date == max_date([i \in 1..Len(df.rows) |-> to_datetime(Column(df, col)[i])])
    IN  IF last_date = NaT
        THEN <<"2", "0", "0", "9", "-", "1", "2", "-", "3", "1">>
        ELSE isoformat(last_date)

\* The "$where" parameter of fetch_since: draw_date > '<date_iso>'.
where_clause(date_iso) == [field |-> "draw_date", op |-> ">", value |-> date_iso]

\* Python's `a or b` on values that are a text or None.
Or(a, b) == IF a # <<>> THEN a ELSE b

\* The field names fetch_since looks up in a record of the response.
ApiKeys == {"draw_date", "drawdate", "date", "winning_numbers", "winningnumbers",
            "multiplier", "power_play", "powerplay"}

\* fetch_since after r.json(): the frame built from the records, its dates
\* parsed to datetime.date (a tuple, or NaT) and its rows sorted by date,
\* NaT last.  Dates are in the order of their YYYY-MM-DD texts.
frame_of_response(data) ==
    LET draw_date(row) == Or(row["draw_date"], Or(row["drawdate"], row["date"]))
        recs  == [i \in 1..Len(data) |->
                     << IF draw_date(data[i]) # None
                        THEN Split(draw_date(data[i]), "T")[1] ELSE None,
                        Or(data[i]["winning_numbers"], data[i]["winningnumbers"]),
                        Or(data[i]["multiplier"],
                           Or(data[i]["power_play"], data[i]["powerplay"])) >>]
        dates == [i \in 1..Len(recs) |-> to_datetime(recs[i][1])]
        order == nargsort([i \in 1..Len(recs) |->
                              IF dates[i] = NaT THEN <<>> ELSE isoformat(dates[i])], TRUE)
    IN  [columns |-> out_cols,
         rows    |-> [k \in 1..Len(order) |->
                         <<dates[order[k]], recs[order[k]][2], recs[order[k]][3]>>]]

\* df_new["Draw Date"] = df_new["Draw Date"].astype(str)
dates_as_text(frame) ==
    [frame EXCEPT !.rows =
        [i \in 1..Len(frame.rows) |->
            [frame.rows[i] EXCEPT ![1] = astype_str(frame.rows[i][1])]]]

\* df_existing of main: the three branches on nums_col and mult_col.
existing_frame(frame, dcol, ncol, mcol) ==
    IF ncol # None /\ mcol # None
    THEN rename(frame, {<<dcol, DrawDateName>>, <<ncol, WinningNumbersName>>,
                        <<mcol, MultiplierName>>})
    ELSE IF ncol # None /\ mcol = None
    THEN LET r == rename(frame, {<<dcol, DrawDateName>>, <<ncol, WinningNumbersName>>})
         IN  IF MultiplierName \notin Range(r.columns)
             THEN with_none_column(r, MultiplierName) ELSE r
    ELSE LET r  == rename(frame, {<<dcol, DrawDateName>>})
             r1 == IF WinningNumbersName \notin Range(r.columns)
                   THEN with_none_column(r, WinningNumbersName) ELSE r
         IN  IF MultiplierName \notin Range(r1.columns)
             THEN with_none_column(r1, MultiplierName) ELSE r1

\* Variant of merged_frame: sorted newest first, like the sorter.
merged_frame_Descending(existing, new) ==
    sort_values(drop_duplicates(concat(project(existing, out_cols),
                                       project(new, out_cols)),
                                DrawDateName),
                DrawDateName, FALSE)

\* merged of main: concat, drop_duplicates(keep="last"), sort_values.
merged_frame(existing, new) ==
    sort_values(drop_duplicates(concat(project(existing, out_cols),
                                       project(new, out_cols)),
                                DrawDateName),
                DrawDateName, TRUE)

\* DataFrame.to_csv(csv_path, index=False): the file that results.
to_csv(frame) == [exists |-> TRUE, columns |-> frame.columns, rows |-> frame.rows]

\* pd.read_csv(csv_path, dtype=str) of the sorter: every cell stays text.
read_csv_str(file) == [columns |-> file.columns, rows |-> file.rows]

\* Variant of exit_status: main returns 1 when the last file was skipped.
exit_status_OfLastFile(out) ==
    IF out # <<>> /\ out[Len(out)].msg # "sorted" THEN 1 ELSE 0

\* sys.exit(main()) of the sorter: main returns None, the status is 0,
\* whatever was printed.
exit_status(out) == 0

----------------------------------------------------------------------------
(* Inputs: the files, arguments and API responses the runs are given.      *)

DrawDates == << <<2023, 12, 30>>, <<2024, 1, 3>>, <<2024, 1, 6>>,
                <<2024, 1, 8>>, <<2024, 1, 10>>, <<2024, 1, 13>> >>

Dates == {DrawDates[k] : k \in 1..MaxDay}

\* MM/DD/YYYY, the form of the NY Open Data export, and M/D/YYYY.
UsText(d) == Digits(d[2], 2) \o <<"/">> \o Digits(d[3], 2) \o <<"/">> \o Digits(d[1], 4)
UsShortText(d) == Digits(d[2], 1) \o <<"/">> \o Digits(d[3], 1) \o <<"/">> \o Digits(d[1], 4)

Garbage == <<"T", "B", "D">>

IsoCells == {isoformat(d) : d \in Dates} \cup {Garbage, <<>>}
UsCells == {UsText(d) : d \in Dates} \cup {UsShortText(d) : d \in Dates}
           \cup {Garbage, <<>>}

\* The winning numbers of the i-th row of a file and of the k-th record of
\* a response: opaque texts that tell the rows apart.
OldNumbers(i) == <<"0", DigitChars[i + 1], " ", "1", DigitChars[i + 1]>>
NewNumbers(k) == <<"2", DigitChars[k + 1], " ", "3", DigitChars[k + 1]>>

SeqsUpTo(S, n) == UNION {[1..k -> S] : k \in 0..n}

NoFile == [exists |-> FALSE, columns |-> <<>>, rows |-> <<>>]

\* Files with the three canonical headers and date cells of one family.
DatedFiles ==
    {[exists  |-> TRUE,
      columns |-> out_cols,
      rows    |-> [i \in 1..Len(cells) |-> <<cells[i], OldNumbers(i), <<"2">> >>]]
        : cells \in SeqsUpTo(IsoCells, MaxRows) \cup SeqsUpTo(UsCells, MaxRows)}

DateHeaders == { DrawDateName,
                 <<"d", "r", "a", "w", "_", "d", "a", "t", "e">>,
                 <<"D", "R", "A", "W", "-", "D", "A", "T", "E">> }
NumsHeaders == { None, WinningNumbersName,
                 <<"w", "i", "n", "n", "i", "n", "g", "_", "n", "u", "m", "b", "e", "r", "s">> }
MultHeaders == { None, MultiplierName,
                 <<"P", "o", "w", "e", "r", " ", "P", "l", "a", "y">> }

Optional(x) == IF x = None THEN <<>> ELSE <<x>>

\* Files whose headers vary: ascending YYYY-MM-DD dates, optional winning
\* numbers and multiplier columns, multiplier cells possibly empty.
LayoutFiles ==
    {[exists  |-> TRUE,
      columns |-> <<h[1]>> \o Optional(h[2]) \o Optional(h[3]),
      rows    |-> [i \in 1..Len(mult) |->
                     <<isoformat(DrawDates[i])>>
                     \o (IF h[2] = None THEN <<>> ELSE <<OldNumbers(i)>>)
                     \o (IF h[3] = None THEN <<>> ELSE <<mult[i]>>)]]
        : h \in DateHeaders \X NumsHeaders \X MultHeaders,
          mult \in SeqsUpTo({<<>>, <<"2">>}, MaxRows)}

\* draw_date as the API writes it, or absent.
ApiDates == {isoformat(d) \o <<"T", "0", "0", ":", "0", "0", ":", "0", "0", ".", "0", "0", "0">>
                : d \in Dates} \cup {None}

ApiRecord(date, k) ==
    [key \in ApiKeys |->
        CASE key = "draw_date" -> date
          [] key = "winning_numbers" -> NewNumbers(k)
          [] key = "multiplier" -> <<"3">>
          [] OTHER -> None]

ApiResponses ==
    {[k \in 1..Len(dates) |-> ApiRecord(dates[k], k)] : dates \in SeqsUpTo(ApiDates, MaxNew)}

DefaultPath == "data/powerball.csv"
OtherPath == "other.csv"
Paths == {DefaultPath, OtherPath}

SortCells == {UsText(DrawDates[1]), UsText(DrawDates[2]), Garbage}

DrawnName == <<"D", "r", "a", "w", "n">>

\* Files for the sorter: a date column found by name ("Draw Date") or only
\* by content ("Drawn"), then the winning numbers.
SorterFiles ==
    {[exists  |-> TRUE,
      columns |-> <<h, WinningNumbersName>>,
      rows    |-> [i \in 1..Len(cells) |-> <<cells[i], OldNumbers(i)>>]]
        : h \in {DrawDateName, DrawnName}, cells \in SeqsUpTo(SortCells, MaxRows)}

OtherFiles ==
    { NoFile,
      [exists |-> TRUE, columns |-> <<WinningNumbersName>>, rows |-> << <<OldNumbers(1)>> >>],
      [exists |-> TRUE, columns |-> <<DrawnName, WinningNumbersName>>,
       rows |-> << <<UsText(DrawDates[1]), OldNumbers(1)>>,
                   <<UsText(DrawDates[2]), OldNumbers(2)>> >>] }

GuessHeaders == { <<"D", "R", "A", "W", "-", "D", "A", "T", "E">>,
                  <<"d", "r", "a", "w", "_", "d", "a", "t", "e">>,
                  DrawnName, WinningNumbersName }

\* Tables for guess_date_col alone: distinct headers, cells that parse or not.
GuessColumns ==
    {c \in SeqsUpTo(GuessHeaders, MaxCols) :
        /\ Len(c) >= 1
        /\ \A i, j \in 1..Len(c) : i # j => c[i] # c[j]}

GuessTables ==
    UNION {{[columns |-> cols, rows |-> rows]
               : rows \in SeqsUpTo([1..Len(cols) -> {isoformat(DrawDates[1]), Garbage}],
                                   MaxRows)}
           : cols \in GuessColumns}

----------------------------------------------------------------------------
(* State.                                                                  *)

VARIABLES
    argv,           \* command line: the updater's --csv path, the sorter's paths
    fs,             \* the files on disk, by path
    fs0,            \* the files on disk when the run started
    writes,         \* to_csv calls so far, by path
    pc,             \* where the run is
    pos,            \* sorter: index of the next file of FILES
    df,             \* the table read (updater: df; guess_date_col: its argument)
    date_col,       \* updater: date_col; guess_date_col: its result
    nums_col,
    mult_col,
    last_date_iso,
    query,          \* the "$where" of the request sent, None before it
    data,           \* r.json()
    df_new,         \* what fetch_since returned
    stdout,         \* the messages printed
    exit_code       \* the process's exit status, -1 while it runs

vars == <<argv, fs, fs0, writes, pc, pos, df, date_col, nums_col, mult_col,
          last_date_iso, query, data, df_new, stdout, exit_code>>

EmptyFrame == [columns |-> <<>>, rows |-> <<>>]

\* FILES = [Path(p) for p in sys.argv[1:]] or [Path("data/powerball.csv")]
FILES == IF argv = <<>> THEN <<DefaultPath>> ELSE argv

csv_path == argv[1]

NoQuery == [field |-> "", op |-> "", value |-> None]

InitMemory ==
    /\ writes = [p \in Paths |-> 0]
    /\ pos = 1
    /\ date_col = None /\ nums_col = None /\ mult_col = None
    /\ last_date_iso = None
    /\ query = NoQuery
    /\ data = <<>>
    /\ df_new = EmptyFrame
    /\ stdout = <<>>
    /\ exit_code = -1

----------------------------------------------------------------------------
(* The updater: main of powerball_updater.py.                              *)

InitUpdater ==
    /\ argv = <<DefaultPath>>
    /\ fs \in [Paths -> {NoFile} \cup DatedFiles \cup LayoutFiles]
    /\ fs[OtherPath] = NoFile
    /\ fs0 = fs
    /\ pc = "start"
    /\ df = EmptyFrame
    /\ InitMemory

\* if not os.path.exists(csv_path): sys.exit(2)
CsvNotFound ==
    /\ pc = "start"
    /\ ~fs[csv_path].exists
    /\ stdout' = Append(stdout, "ERROR: CSV not found")
    /\ exit_code' = 2
    /\ pc' = "exit"
    /\ UNCHANGED <<argv, fs, fs0, writes, pos, df, date_col, nums_col, mult_col,
                   last_date_iso, query, data, df_new>>

\* df = pd.read_csv(csv_path); date_col is None: sys.exit(3)
NoDateColumn ==
    /\ pc = "start"
    /\ fs[csv_path].exists
    /\ pick(date_options, fs[csv_path].columns) = None
    /\ df' = read_csv(fs[csv_path])
    /\ date_col' = None
    /\ nums_col' = pick(nums_options, fs[csv_path].columns)
    /\ mult_col' = pick(mult_options, fs[csv_path].columns)
    /\ stdout' = Append(stdout, "ERROR: Could not find a Draw Date column")
    /\ exit_code' = 3
    /\ pc' = "exit"
    /\ UNCHANGED <<argv, fs, fs0, writes, pos, last_date_iso, query, data, df_new>>

\* df = pd.read_csv(csv_path), the three picks, last_date_iso.  The column
\* _parsed_draw_date that main adds to df is used for last_date only and
\* is dropped by df_existing[out_cols]; it is not kept in df here.
ReadLastDate ==
    /\ pc = "start"
    /\ fs[csv_path].exists
    /\ pick(date_options, fs[csv_path].columns) # None
    /\ df' = read_csv(fs[csv_path])
    /\ date_col' = pick(date_options, fs[csv_path].columns)
    /\ nums_col' = pick(nums_options, fs[csv_path].columns)
    /\ mult_col' = pick(mult_options, fs[csv_path].columns)
    /\ last_date_iso' = last_date_iso_of(read_csv(fs[csv_path]),
                                         pick(date_options, fs[csv_path].columns))
    /\ stdout' = Append(stdout, "Last date in CSV")
    /\ pc' = "fetch"
    /\ UNCHANGED <<argv, fs, fs0, writes, pos, query, data, df_new, exit_code>>

\* fetch_since: requests.get times out or r.raise_for_status() raises; the
\* exception is not caught and the interpreter exits with status 1.
FetchRaises ==
    /\ pc = "fetch"
    /\ query' = where_clause(last_date_iso)
    /\ exit_code' = 1
    /\ pc' = "exit"
    /\ UNCHANGED <<argv, fs, fs0, writes, pos, df, date_col, nums_col, mult_col,
                   last_date_iso, data, df_new, stdout>>

\* fetch_since returns: an empty frame for an empty response, else the
\* frame of its records.
FetchReturns ==
    /\ pc = "fetch"
    /\ \E response \in ApiResponses :
          /\ data' = response
          /\ df_new' = IF response = <<>>
                       THEN [columns |-> out_cols, rows |-> <<>>]
                       ELSE frame_of_response(response)
    /\ query' = where_clause(last_date_iso)
    /\ pc' = "fetched"
    /\ UNCHANGED <<argv, fs, fs0, writes, pos, df, date_col, nums_col, mult_col,
                   last_date_iso, stdout, exit_code>>

\* Variant of NoNewDraws: the table read is saved back before returning.
NoNewDraws_Saves ==
    /\ pc = "fetched"
    /\ df_new.rows = <<>>
    /\ fs' = [fs EXCEPT ![csv_path] = to_csv(df)]
    /\ writes' = [writes EXCEPT ![csv_path] = @ + 1]
    /\ stdout' = Append(stdout, "No new draws found")
    /\ exit_code' = 0
    /\ pc' = "exit"
    /\ UNCHANGED <<argv, fs0, pos, df, date_col, nums_col, mult_col,
                   last_date_iso, query, data, df_new>>

\* if df_new.empty: return
NoNewDraws ==
    /\ pc = "fetched"
    /\ df_new.rows = <<>>
    /\ stdout' = Append(stdout, "No new draws found")
    /\ exit_code' = 0
    /\ pc' = "exit"
    /\ UNCHANGED <<argv, fs, fs0, writes, pos, df, date_col, nums_col, mult_col,
                   last_date_iso, query, data, df_new>>

\* The rest of main: dates to text, df_existing, merged, merged.to_csv.
MergeAndSave ==
    /\ pc = "fetched"
    /\ df_new.rows # <<>>
    /\ df_new' = dates_as_text(df_new)
    /\ fs' = [fs EXCEPT ![csv_path] =
                 to_csv(merged_frame(existing_frame(df, date_col, nums_col, mult_col),
                                     dates_as_text(df_new)))]
    /\ writes' = [writes EXCEPT ![csv_path] = @ + 1]
    /\ stdout' = stdout \o <<"Appending new rows", "Updated CSV saved">>
    /\ exit_code' = 0
    /\ pc' = "exit"
    /\ UNCHANGED <<argv, fs0, pos, df, date_col, nums_col, mult_col,
                   last_date_iso, query, data>>

NextUpdater ==
    \/ CsvNotFound
    \/ NoDateColumn
    \/ ReadLastDate
    \/ FetchRaises
    \/ FetchReturns
    \/ NoNewDraws
    \/ MergeAndSave

Spec == InitUpdater /\ [][NextUpdater]_vars

----------------------------------------------------------------------------
(* Properties of the updater.                                              *)

\* The run ended with merged.to_csv.
Saved == pc = "exit" /\ writes[csv_path] = 1

NoWrite == fs = fs0 /\ \A p \in Paths : writes[p] = 0

Prior == fs0[csv_path]
Written == fs[csv_path]

\* The cell of row i of the file as it was, in the column the updater
\* took for the date, the winning numbers or the multiplier.
PriorCell(i, col) == IF col = None THEN None ELSE Column(Prior, col)[i]

PriorRows ==
    [i \in 1..Len(Prior.rows) |->
        <<PriorCell(i, date_col), PriorCell(i, nums_col), PriorCell(i, mult_col)>>]

Canonical(row) == to_datetime(row[1])

\* D: the latest date any date cell of the file parses to.
PriorDates == {Canonical(PriorRows[i]) : i \in 1..Len(PriorRows)} \ {NaT}
LatestPrior == CHOOSE d \in PriorDates : \A e \in PriorDates : ~DateLess(d, e)

\* The date of a record of the response.
ReturnedDate(k) ==
    IF data[k]["draw_date"] = None THEN NaT
    ELSE to_datetime(Split(data[k]["draw_date"], "T")[1])

ReturnedDates == {ReturnedDate(k) : k \in 1..Len(data)}

AllLater ==
    /\ PriorDates # {}
    /\ data # <<>>
    /\ \A k \in 1..Len(data) :
          ReturnedDate(k) # NaT /\ DateLess(LatestPrior, ReturnedDate(k))

\* C1: after the merge every canonical draw date has at most one row in the
\* written CSV, and of the rows of the concatenation (existing rows, then
\* new rows) that share a canonical date the last one is the survivor.
C1_OneRowPerCanonicalDate ==
    Saved =>
        LET cat == PriorRows \o df_new.rows
        IN  /\ \A i, j \in 1..Len(Written.rows) :
                  (i # j /\ Canonical(Written.rows[i]) # NaT)
                      => Canonical(Written.rows[i]) # Canonical(Written.rows[j])
            /\ \A k \in 1..Len(cat) :
                  (/\ Canonical(cat[k]) # NaT
                   /\ \A j \in (k + 1)..Len(cat) : Canonical(cat[j]) # Canonical(cat[k]))
                      => \E i \in 1..Len(Written.rows) :
                            /\ Canonical(Written.rows[i]) = Canonical(cat[k])
                            /\ Written.rows[i][2] = cat[k][2]

\* C2: the rows written after a merge are in ascending order of canonical
\* draw date, whatever textual form the existing date cells have.
C2_AscendingByCanonicalDate ==
    Saved =>
        \A i, j \in 1..Len(Written.rows) :
            (/\ i < j
             /\ Canonical(Written.rows[i]) # NaT
             /\ Canonical(Written.rows[j]) # NaT)
                => ~DateLess(Canonical(Written.rows[j]), Canonical(Written.rows[i]))

\* C3: a run that does not end in a successful merge never writes the CSV:
\* missing file (exit 2), no date column (exit 3), the fetch raising, no new
\* rows (exit 0); the one write is the last step of a successful run.
C3_NoWriteUnlessMerged ==
    /\ pc # "exit" => NoWrite
    /\ pc = "exit" =>
          /\ ~Prior.exists => exit_code = 2 /\ NoWrite
          /\ (Prior.exists /\ Range(date_options) \cap Range(Prior.columns) = {})
                => exit_code = 3 /\ NoWrite
          /\ exit_code \notin {0, 2, 3} => NoWrite
          /\ (exit_code = 0 /\ data = <<>>) => NoWrite
          /\ ~NoWrite =>
                /\ exit_code = 0 /\ data # <<>>
                /\ writes = [p \in Paths |-> IF p = csv_path THEN 1 ELSE 0]
                /\ fs[OtherPath] = fs0[OtherPath]

C3_Witness ==
    /\ pc = "exit" /\ exit_code = 0 /\ data = <<>>
    /\ Len(Prior.rows) >= 2
    /\ query.value = isoformat(DrawDates[2])

\* C4: a date header spelt in any way that normalizes like "Draw Date" is
\* identified by the sorter's guess_date_col and by the updater's pick, and
\* neither reports that there is no date column.
C4_SpellingInvariant ==
    \A k \in 1..Len(Prior.columns) :
        (/\ Prior.exists
         /\ norm(Prior.columns[k]) = norm(DrawDateName)
         /\ \A j \in 1..(k - 1) : norm(Prior.columns[j]) # norm(DrawDateName))
            => /\ guess_date_col(read_csv_str(Prior)) = Prior.columns[k]
               /\ pc # "start" => (date_col = Prior.columns[k] /\ exit_code # 3)

KthReturned(k) ==
    CHOOSE d \in ReturnedDates : Cardinality({e \in ReturnedDates : DateLess(e, d)}) = k - 1
LastRecordOf(d) ==
    data[CHOOSE k \in 1..Len(data) :
            ReturnedDate(k) = d /\ \A j \in (k + 1)..Len(data) : ReturnedDate(j) # d]

\* The prior date cells are strictly ascending as text, none is empty, and
\* all sort before the returned dates.
PriorInTextOrder ==
    /\ \A i \in 1..Len(PriorRows) :
          /\ PriorRows[i][1] # <<>>
          /\ \A d \in ReturnedDates : StrLess(PriorRows[i][1], isoformat(d))
    /\ \A i \in 1..(Len(PriorRows) - 1) : StrLess(PriorRows[i][1], PriorRows[i + 1][1])

C10_ExistingValuesKept ==
    Saved =>
        \A w \in 1..Len(Written.rows) :
            (\A k \in 1..Len(df_new.rows) : df_new.rows[k][1] # Written.rows[w][1])
                => \E i \in 1..Len(PriorRows) :
                      /\ PriorRows[i][1] = Written.rows[w][1]
                      /\ \A j \in (i + 1)..Len(PriorRows) : PriorRows[j][1] # PriorRows[i][1]
                      /\ Written.rows[w][2] = PriorRows[i][2]
                      /\ Written.rows[w][3] = PriorRows[i][3]

----------------------------------------------------------------------------
(* The sorter: main and sort_file of sort_powerball.py.                    *)

InitSorter ==
    /\ argv \in SeqsUpTo(Paths, MaxFiles)
    /\ fs \in [Paths -> {NoFile} \cup SorterFiles \cup OtherFiles]
    /\ fs[OtherPath] \in OtherFiles
    /\ fs0 = fs
    /\ pc = "loop"
    /\ df = EmptyFrame
    /\ InitMemory

\* Variant of SkipNotFound: a missing file ends the loop.
SkipNotFound_Aborts ==
    /\ pc = "loop"
    /\ pos <= Len(FILES)
    /\ ~fs[FILES[pos]].exists
    /\ stdout' = Append(stdout, [msg |-> "skip: not found", path |-> FILES[pos]])
    /\ pos' = Len(FILES) + 1
    /\ UNCHANGED <<argv, fs, fs0, writes, pc, df, date_col, nums_col, mult_col,
                   last_date_iso, query, data, df_new, exit_code>>

\* sort_file: if not csv_path.exists(): return
SkipNotFound ==
    /\ pc = "loop"
    /\ pos <= Len(FILES)
    /\ ~fs[FILES[pos]].exists
    /\ stdout' = Append(stdout, [msg |-> "skip: not found", path |-> FILES[pos]])
    /\ pos' = pos + 1
    /\ UNCHANGED <<argv, fs, fs0, writes, pc, df, date_col, nums_col, mult_col,
                   last_date_iso, query, data, df_new, exit_code>>

\* sort_file: col = guess_date_col(df); if not col: return
SkipNoDateColumn ==
    /\ pc = "loop"
    /\ pos <= Len(FILES)
    /\ fs[FILES[pos]].exists
    /\ \E frame \in {read_csv_str(fs[FILES[pos]])} :
           /\ guess_date_col(frame) = None
           /\ df' = frame
    /\ date_col' = None
    /\ stdout' = Append(stdout, [msg |-> "skip: no date-like column", path |-> FILES[pos]])
    /\ pos' = pos + 1
    /\ UNCHANGED <<argv, fs, fs0, writes, pc, nums_col, mult_col,
                   last_date_iso, query, data, df_new, exit_code>>

\* sort_file: dates cleaned, rows sorted newest first, df.to_csv(csv_path)
SortFile ==
    /\ pc = "loop"
    /\ pos <= Len(FILES)
    /\ fs[FILES[pos]].exists
    /\ \E frame \in {read_csv_str(fs[FILES[pos]])} :
       \E col \in {guess_date_col(frame)} :
           /\ col # None
           /\ \E out \in {sorted_table(frame, col)} :
                  /\ date_col' = col
                  /\ df' = out
                  /\ fs' = [fs EXCEPT ![FILES[pos]] = to_csv(out)]
    /\ writes' = [writes EXCEPT ![FILES[pos]] = @ + 1]
    /\ stdout' = Append(stdout, [msg |-> "sorted", path |-> FILES[pos]])
    /\ pos' = pos + 1
    /\ UNCHANGED <<argv, fs0, pc, nums_col, mult_col,
                   last_date_iso, query, data, df_new, exit_code>>

\* main returns after the last file; sys.exit(main())
SorterExit ==
    /\ pc = "loop"
    /\ pos > Len(FILES)
    /\ exit_code' = exit_status(stdout)
    /\ pc' = "exit"
    /\ UNCHANGED <<argv, fs, fs0, writes, pos, df, date_col, nums_col, mult_col,
                   last_date_iso, query, data, df_new, stdout>>

NextSorter ==
    \/ SkipNotFound
    \/ SkipNoDateColumn
    \/ SortFile
    \/ SorterExit

SpecSorter == InitSorter /\ [][NextSorter]_vars

\* The interpreter runs the script to its end: a step that can be taken is.
SpecSorterFair == SpecSorter /\ WF_vars(NextSorter)

----------------------------------------------------------------------------
(* guess_date_col on its own.                                              *)

InitGuess ==
    /\ argv = <<>>
    /\ fs = [p \in Paths |-> NoFile]
    /\ fs0 = fs
    /\ pc = "start"
    /\ df \in GuessTables
    /\ InitMemory

ApplyGuess ==
    /\ pc = "start"
    /\ date_col' = guess_date_col(df)
    /\ pc' = "exit"
    /\ UNCHANGED <<argv, fs, fs0, writes, pos, df, nums_col, mult_col,
                   last_date_iso, query, data, df_new, stdout, exit_code>>

NextGuess == ApplyGuess

SpecGuess == InitGuess /\ [][NextGuess]_vars

----------------------------------------------------------------------------
(* Properties of the sorter.                                               *)

\* A table has a date-like column: a header that normalizes to a date
\* candidate, or a cell that parses as a date.
HasDateLikeColumn(file) ==
    \/ \E k \in 1..Len(file.columns) : norm(file.columns[k]) \in DATE_CANDIDATES
    \/ \E i \in 1..Len(file.rows) : \E k \in 1..Len(file.columns) :
          to_datetime(file.rows[i][k]) # NaT

\* What sort_file is to print for a file, from the file as it was.
ExpectedMessage(p) ==
    IF ~fs0[p].exists THEN "skip: not found"
    ELSE IF ~HasDateLikeColumn(fs0[p]) THEN "skip: no date-like column"
    ELSE "sorted"

Occurrences(p) == Cardinality({k \in 1..Len(FILES) : FILES[k] = p})

C5_Safety ==
    /\ Len(stdout) = pos - 1
    /\ \A k \in 1..Len(stdout) :
          stdout[k] = [msg |-> ExpectedMessage(FILES[k]), path |-> FILES[k]]
    /\ \A p \in Paths :
          ExpectedMessage(p) # "sorted" => (fs[p] = fs0[p] /\ writes[p] = 0)

C5_Done ==
    /\ pc = "exit"
    /\ Len(stdout) = Len(FILES)
    /\ \A p \in Paths :
          ExpectedMessage(p) = "sorted" => writes[p] = Occurrences(p)

\* C5: every file argument is processed exactly once and in argument order;
\* a missing file or one without a date-like column is skipped and never
\* written; and every run ends with all its files processed, the ones after
\* a skipped file included.
C5_EveryFileProcessed == [](C5_Safety) /\ <>(C5_Done)

C5_Witness ==
    /\ pc = "exit"
    /\ Len(FILES) >= 2
    /\ stdout[1].msg = "skip: not found"
    /\ stdout[2].msg = "sorted"
    /\ fs[FILES[2]] # fs0[FILES[2]]

\* C6 as stated: the exit code tells the outcome of the last file: a run
\* whose last file was skipped does not end with the code of a run whose
\* last file was sorted (which is 0).
C6_ExitCodeTellsLastOutcome ==
    pc = "exit" => (exit_code = 0 <=> stdout[Len(stdout)].msg = "sorted")

\* C6 amended: the sorter's exit code is 0 in every run, whether its last
\* file was sorted or skipped.
C6_ExitCodeAlwaysZero ==
    /\ pc = "exit" => exit_code = 0
    /\ pc # "exit" => exit_code = -1

C6_Witness ==
    /\ pc = "exit"
    /\ Len(stdout) >= 2
    /\ stdout[1].msg = "sorted"
    /\ stdout[Len(stdout)].msg # "sorted"

\* C7: in a file the sorter has sorted, every row whose date cell did not
\* parse comes after all rows with a valid date (the order is descending).
C7_UnparseableAfterValid ==
    \A p \in Paths :
        writes[p] > 0 =>
            LET col   == guess_date_col(read_csv_str(fs[p]))
                cells == Column(fs[p], col)
            IN  \A i, j \in 1..Len(cells) :
                    (i < j /\ to_datetime(cells[i]) = NaT) => to_datetime(cells[j]) = NaT

----------------------------------------------------------------------------
(* Properties of guess_date_col.                                           *)

ParseableCells(table, k) ==
    Cardinality({i \in 1..Len(table.rows) : to_datetime(table.rows[i][k]) # NaT})

\* identifyDateColumn: the first header whose normalized form is a date
\* candidate; failing that the first of the columns with the highest count
\* of parseable cells, if that count is positive; failing that, NONE.
identifyDateColumn(table) ==
    LET cols    == 1..Len(table.columns)
        named   == {k \in cols : norm(table.columns[k]) \in DATE_CANDIDATES}
        best    == {k \in cols : /\ ParseableCells(table, k) > 0
                                 /\ \A j \in cols :
                                       ParseableCells(table, j) <= ParseableCells(table, k)}
        First(S) == CHOOSE k \in S : \A j \in S : k <= j
    IN  IF named # {} THEN table.columns[First(named)]
        ELSE IF best # {} THEN table.columns[First(best)]
        ELSE None

\* C9: guess_date_col returns what identifyDateColumn specifies, on every
\* table.
C9_GuessIsIdentify ==
    pc = "exit" => date_col = identifyDateColumn(df)

C9_Witness ==
    /\ pc = "exit"
    /\ Len(df.columns) >= 2
    /\ \A k \in 1..Len(df.columns) : norm(df.columns[k]) \notin DATE_CANDIDATES
    /\ ParseableCells(df, 1) = ParseableCells(df, 2)
    /\ ParseableCells(df, 1) > 0
    /\ date_col = df.columns[1]

=============================================================================
